---- MODULE Spec2Model ----
(***************************************************************************)
(* A model of github.com/agorman/mariadbstore (src/store.go, the variant   *)
(* with the `expires` column and the background sweeper, lines 214-488).   *)
(*                                                                         *)
(* The table of session rows, the AUTO_INCREMENT counter, the wall clock,  *)
(* the session objects held by request handlers, the sweeper goroutine     *)
(* and the caller of Close are the state.  Every database statement is one *)
(* atomic step.  New and Save are one step each: what they return depends  *)
(* only on the statements they execute, and each statement is atomic.      *)
(* cleanExpiredSessions is one step per statement (the scan, then one      *)
(* step per scanned row), so that requests interleave with a sweep.        *)
(*                                                                         *)
(* The codec (gorilla/securecookie) and the database are libraries outside *)
(* the repository.  The codec is modelled as a signed token that carries   *)
(* the cookie name and the value and refuses values that are too long; the *)
(* database as a table keyed by an auto-increment id whose statements can  *)
(* each fail.                                                              *)
(***************************************************************************)
EXTENDS Integers, Sequences, FiniteSets, TLC

(* ------------------------------ bounds --------------------------------- *)

\* Largest id the AUTO_INCREMENT column can hold (INT, scaled down): an
\* insert past it fails.
MaxId == 2

\* The clock stops advancing here.
MaxTime == 1

(* ----------------------------- constants ------------------------------- *)

\* Request handlers.  One handler holds a session at a time: what New and
\* Save do depends on the table, the counter, the clock and the handler's own
\* session only, and a second handler adds no reachable combination of these.
Clients == {"c1"}

\* Ids of rows an earlier run of the program may have left in the table.
InitIds == {1}

\* The session name (one cookie name is modelled).
Name == "sid"

\* Options.MaxAge of the store, in clock units: one unit of the model's
\* clock is the 86400 * 30 seconds of the source.
DefaultMaxAge == 1

\* The codec's limit on the length of a value (securecookie's maxLength,
\* set through MaxLength), in elements of the value.
MaxLength == 1

\* session.Options.MaxAge values a handler may set before Save: negative,
\* zero, or the lifetime it got from the store.
Ages == {-1, 0, DefaultMaxAge}

\* session.Values a handler may hold before Save; the last one is too long
\* for the codec.
DataSet == {<< >>, <<"alice">>, <<"alice", "bob">>}

Nil == "nil"
ErrEncode == "securecookie: the value is too long"
ErrDecode == "securecookie: the value is not valid"
ErrNoRows == "sql: no rows in result set"
ErrSelect == "select failed"
ErrInsert == "insert failed"
ErrUpdate == "update failed"
ErrDelete == "delete failed"
ErrQuery == "select all failed"
ErrClosed == "sql: statement is closed"

VARIABLES
    table,        \* id -> [expires, session_data]: the rows of the table
    nextId,       \* the AUTO_INCREMENT counter of the id column
    now,          \* time.Now().Unix()
    sess,         \* per handler: whether it holds a session, and its ID
    stmtsClosed,  \* insertStmt, updateStmt, selectStmt, deleteStmt are closed
    loopPc,       \* where NewMariadbStore / the loop goroutine is
    sweep,        \* the running cleanExpiredSessions call: now, rows left
    closePc,      \* where the caller of Close is
    issued        \* history: every id an INSERT has assigned so far

vars == <<table, nextId, now, sess, stmtsClosed, loopPc, sweep, closePc, issued>>

(* ------------------------------ the codec ------------------------------ *)

\* A token the codec issued for (name, value).
Token(name, value) == [name |-> name, body |-> value, sig |-> "valid"]

\* A token whose signature does not verify (any corrupted byte).
Tampered == [name |-> Name, body |-> << >>, sig |-> "forged"]

\* The empty cookie value "".
EmptyValue == [name |-> "", body |-> << >>, sig |-> "none"]

\* securecookie.EncodeMulti(name, value, codecs...)
EncodeMulti(name, value) ==
    IF Len(value) > MaxLength
    THEN [err |-> ErrEncode, tok |-> EmptyValue]
    ELSE [err |-> Nil, tok |-> Token(name, value)]

\* securecookie.DecodeMulti(name, value, &dst, codecs...)
DecodeMulti(name, tok) ==
    IF tok.sig = "valid" /\ tok.name = name
    THEN [err |-> Nil, value |-> tok.body]
    ELSE [err |-> ErrDecode, value |-> << >>]

(* --------------------------- ids as strings ---------------------------- *)

DigitChar == <<"0", "1", "2", "3", "4", "5", "6", "7", "8", "9">>

\* fmt.Sprintf("%d", id)
RECURSIVE Sprintf(_)
Sprintf(id) ==
    IF id < 10 THEN <<DigitChar[id + 1]>>
    ELSE Sprintf(id \div 10) \o <<DigitChar[(id % 10) + 1]>>

DigitOf(ch) == CHOOSE d \in 0..9 : DigitChar[d + 1] = ch

\* The database's reading of a string parameter compared with the INT id
\* column; "" reads as 0, which is no row's id.
RECURSIVE ParseId(_)
ParseId(s) ==
    IF s = << >> THEN 0
    ELSE 10 * ParseId(SubSeq(s, 1, Len(s) - 1)) + DigitOf(s[Len(s)])

(* ------------------------------ sessions ------------------------------- *)

\* What a handler keeps of the session New gave it until it calls Save: the
\* ID.  Values and Options.MaxAge are the handler's to set before Save (Save
\* draws them), and nothing in the store reads IsNew after New has set it.
NoSession == [has |-> FALSE, ID |-> << >>]
Held(session) == [has |-> TRUE, ID |-> session.ID]

\* sessions.NewSession(s, name) with Options copied from the store and
\* IsNew set.
NewSession == [ID |-> << >>, Values |-> << >>, IsNew |-> TRUE, MaxAge |-> DefaultMaxAge]

NoCookie == [set |-> FALSE, Value |-> EmptyValue]
Cookie(v) == [set |-> TRUE, Value |-> v]

(* ------------------------- the four statements ------------------------- *)

\* A statement fails when the connection does (ok = FALSE) or when Close
\* has closed it.
StmtErr(ok, closed, e) == IF closed THEN ErrClosed ELSE IF ok THEN Nil ELSE e

\* A counter that restarts after the largest id present (ids are reused once
\* the newest rows are deleted).
AssignedId_reuse(t, nid) ==
    IF DOMAIN t = {} THEN 1
    ELSE (CHOOSE i \in DOMAIN t : \A j \in DOMAIN t : j <= i) + 1

\* The id an INSERT assigns: the AUTO_INCREMENT counter.
AssignedId(t, nid) == nid

\* insert without `session.ID = fmt.Sprintf("%d", id)`.
insert_noId(session, t, nid, nowv, ok, closed) ==
    LET enc == EncodeMulti(Name, session.Values)
        expires == nowv + session.MaxAge
        e == StmtErr(ok /\ nid <= MaxId, closed, ErrInsert)
    IN  IF enc.err # Nil \/ e # Nil
        THEN [err |-> IF enc.err # Nil THEN enc.err ELSE e,
              session |-> session, table |-> t, nextId |-> nid]
        ELSE [err |-> Nil, session |-> session,
              table |-> [i \in DOMAIN t \cup {nid} |->
                            IF i = nid THEN [expires |-> expires, session_data |-> enc.tok]
                            ELSE t[i]],
              nextId |-> nid + 1]

\* MariadbStore.insert
insert(session, t, nid, nowv, ok, closed) ==
    LET enc == EncodeMulti(Name, session.Values)
        expires == nowv + session.MaxAge
        e == StmtErr(ok /\ nid <= MaxId, closed, ErrInsert)
        id == AssignedId(t, nid)
    IN  IF enc.err # Nil
        THEN [err |-> enc.err, session |-> session, table |-> t, nextId |-> nid]
        ELSE IF e # Nil
        THEN [err |-> e, session |-> session, table |-> t, nextId |-> nid]
        ELSE [err |-> Nil,
              session |-> [session EXCEPT !.ID = Sprintf(id)],
              table |-> [i \in DOMAIN t \cup {id} |->
                            IF i = id THEN [expires |-> expires, session_data |-> enc.tok]
                            ELSE t[i]],
              nextId |-> nid + 1]

\* The rows `UPDATE t SET expires=?, session_data=?` touches: the statement
\* has no WHERE clause.
UpdatedRows(session, t) == DOMAIN t

\* MariadbStore.save
save(session, t, nowv, ok, closed) ==
    LET enc == EncodeMulti(Name, session.Values)
        expires == nowv + session.MaxAge
        e == StmtErr(ok, closed, ErrUpdate)
    IN  IF enc.err # Nil THEN [err |-> enc.err, table |-> t]
        ELSE IF e # Nil THEN [err |-> e, table |-> t]
        ELSE [err |-> Nil,
              table |-> [i \in DOMAIN t |->
                            IF i \in UpdatedRows(session, t)
                            THEN [expires |-> expires, session_data |-> enc.tok]
                            ELSE t[i]]]

\* A load whose SELECT returns unexpired rows only
\* (WHERE id=? AND expires >= now).
load_unexpiredOnly(session, t, ok, closed) ==
    LET e == StmtErr(ok, closed, ErrSelect)
        id == ParseId(session.ID)
    IN  IF e # Nil THEN [err |-> e, session |-> session]
        ELSE IF id \notin DOMAIN t \/ t[id].expires < now
        THEN [err |-> ErrNoRows, session |-> session]
        ELSE LET dec == DecodeMulti(Name, t[id].session_data)
             IN  IF dec.err # Nil THEN [err |-> dec.err, session |-> session]
                 ELSE [err |-> Nil, session |-> [session EXCEPT !.Values = dec.value]]

\* MariadbStore.load
load(session, t, ok, closed) ==
    LET e == StmtErr(ok, closed, ErrSelect)
        id == ParseId(session.ID)
    IN  IF e # Nil THEN [err |-> e, session |-> session]
        ELSE IF id \notin DOMAIN t THEN [err |-> ErrNoRows, session |-> session]
        ELSE LET dec == DecodeMulti(Name, t[id].session_data)
             IN  IF dec.err # Nil THEN [err |-> dec.err, session |-> session]
                 ELSE [err |-> Nil, session |-> [session EXCEPT !.Values = dec.value]]

\* MariadbStore.erase
erase(id, t, ok, closed) ==
    LET e == StmtErr(ok, closed, ErrDelete)
    IN  IF e # Nil THEN [err |-> e, table |-> t]
        ELSE [err |-> Nil, table |-> [i \in DOMAIN t \ {ParseId(id)} |-> t[i]]]

(* -------------------------------- New ---------------------------------- *)

\* A fallback for a missing row or a bad cookie only: a failed SELECT is
\* returned to the caller.
Fallback_notOnSelect(err) == err \notin {Nil, ErrSelect}

\* New inserts a record for every request, whatever its cookie.
Fallback_always(err) == TRUE

\* Whether New goes on to the fallback insert, given the error so far.
Fallback(err) == err # Nil

\* IsNew cleared as soon as the cookie decodes.
Loaded_onDecode(decErr, loadErr) == decErr = Nil

\* Whether New clears IsNew: the cookie decoded and the record loaded.
Loaded(decErr, loadErr) == decErr = Nil /\ loadErr = Nil

\* MariadbStore.New on a request whose cookie `name` is `cookie`.
NewResult(cookie, t, nid, nowv, loadOk, insOk, closed) ==
    LET s0 == NewSession
        dec == DecodeMulti(Name, cookie.Value)
        s1 == IF cookie.set /\ dec.err = Nil THEN [s0 EXCEPT !.ID = dec.value] ELSE s0
        ld == load(s1, t, loadOk, closed)
        err1 == IF ~cookie.set THEN Nil
                ELSE IF dec.err # Nil THEN dec.err
                ELSE ld.err
        s2 == IF cookie.set /\ Loaded(dec.err, ld.err)
              THEN [ld.session EXCEPT !.IsNew = FALSE] ELSE s1
        ins == insert(s2, t, nid, nowv, insOk, closed)
    IN  IF Fallback(err1)
        THEN [session |-> ins.session, err |-> ins.err, table |-> ins.table,
              nextId |-> ins.nextId, attempted |-> TRUE]
        ELSE [session |-> s2, err |-> err1, table |-> t,
              nextId |-> nid, attempted |-> FALSE]

(* -------------------------------- Save --------------------------------- *)

\* A delete that returns nil without calling http.SetCookie.
DeletedCookie_none(session) == NoCookie

\* The value of the cookie Save sets after a delete.
DeletedCookie(session) == Cookie(EmptyValue)

\* A delete for a negative max-age only.
DeleteRequested_negative(session) == session.MaxAge < 0

\* Save's test for a delete request.
DeleteRequested(session) == session.MaxAge <= 0

\* MariadbStore.Save
SaveResult(session, t, nid, nowv, ok, closed) ==
    IF DeleteRequested(session)
    THEN LET er == erase(session.ID, t, ok, closed)
         IN  IF er.err # Nil
             THEN [err |-> er.err, session |-> session, table |-> t, nextId |-> nid,
                   resp |-> NoCookie, write |-> "delete"]
             ELSE [err |-> Nil, session |-> session, table |-> er.table, nextId |-> nid,
                   resp |-> DeletedCookie(session), write |-> "delete"]
    ELSE LET bound == session.ID # << >>
             ins == insert(session, t, nid, nowv, ok, closed)
             upd == save(session, t, nowv, ok, closed)
             err1 == IF bound THEN upd.err ELSE ins.err
             s1 == IF bound THEN session ELSE ins.session
             t1 == IF bound THEN upd.table ELSE ins.table
             n1 == IF bound THEN nid ELSE ins.nextId
             w == IF bound THEN "update" ELSE "insert"
             enc == EncodeMulti(Name, s1.ID)
         IN  IF err1 # Nil
             THEN [err |-> err1, session |-> session, table |-> t, nextId |-> nid,
                   resp |-> NoCookie, write |-> w]
             ELSE IF enc.err # Nil
             THEN [err |-> enc.err, session |-> s1, table |-> t1, nextId |-> n1,
                   resp |-> NoCookie, write |-> w]
             ELSE [err |-> Nil, session |-> s1, table |-> t1, nextId |-> n1,
                   resp |-> Cookie(enc.tok), write |-> w]

(* ------------------------------ the sweep ------------------------------ *)

EmptyTable == [i \in {} |-> [expires |-> 0, session_data |-> EmptyValue]]

\* `clean` and `t0` are history fields: no request has written to the table
\* since the scan of the running sweep, and the table as it was scanned.
IdleSweep == [pc |-> "idle", now |-> 0, rows |-> << >>, clean |-> TRUE, t0 |-> EmptyTable]

\* The result set of `SELECT id, expires FROM t`, in primary-key order; id
\* is scanned into a string.
RECURSIVE Snapshot(_)
Snapshot(t) ==
    IF DOMAIN t = {} THEN << >>
    ELSE LET m == CHOOSE i \in DOMAIN t : \A j \in DOMAIN t : i <= j
         IN  <<[id |-> Sprintf(m), expires |-> t[m].expires]>>
             \o Snapshot([i \in DOMAIN t \ {m} |-> t[i]])

\* A row is deleted at its expiry instant already.
Expired_atNow(nowv, expires) == nowv >= expires

\* The test of cleanExpiredSessions on one scanned row.
Expired(nowv, expires) == nowv > expires

(* ------------------------------- Close --------------------------------- *)

\* A loop that takes the stop request while its sweep is still running (the
\* sweep started in a goroutine of its own).
StopReady_duringSweep(lp) == lp \in {"select", "tick"}

\* A loop without `case <-s.stopChan`.
StopReady_never(lp) == lp = "none"

\* A stop channel that still takes a request after the loop has returned (a
\* buffered channel).
StopReady_afterExit(lp) == lp \in {"select", "exited"}

\* The loop goroutine receives from stopChan only when it is in its select.
StopReady(lp) == lp = "select"

\* Close closes the statements only after it has received from
\* doneStoppingChan.
MayCloseStmts(cp) == cp = "closing"

(* ------------------------------- Init ---------------------------------- *)

\* Rows left by an earlier run: expired at time 0, or expiring right after.
InitRecords ==
    {[expires |-> e, session_data |-> Token(Name, <<"alice">>)] : e \in {-1, 0}}

\* The database NewMariadbStore finds: a table it has just created, or the
\* table of an earlier run with its rows and its counter past them.
InitStores ==
    {[table |-> EmptyTable, nextId |-> 1, issued |-> {}]}
        \cup {[table |-> t, nextId |-> Cardinality(InitIds) + 1, issued |-> InitIds] :
                    t \in [InitIds -> InitRecords]}


\* The state when NewMariadbStore has built the store (line 304) and is
\* about to run its first sweep.
Init ==
    /\ \E st \in InitStores :
        /\ table = st.table
        /\ nextId = st.nextId
        /\ issued = st.issued
    /\ now = 0
    /\ sess = [c \in Clients |-> NoSession]
    /\ stmtsClosed = FALSE
    /\ loopPc = "construct"
    /\ sweep = IdleSweep
    /\ closePc = "idle"

(* ------------------------------ requests ------------------------------- *)

\* The cookies a request can carry: none, an empty one, a corrupted one, or
\* a token this store (or an earlier run with the same keys) issued.
RequestCookies(nid) ==
    {NoCookie, Cookie(EmptyValue), Cookie(Tampered)}
        \cup {Cookie(Token(Name, Sprintf(i))) : i \in 1..(nid - 1)}

\* A write by a request while a sweep is between its scan and its end.
Disturbed(t2) == IF sweep.pc = "rows" /\ t2 # table
                 THEN [sweep EXCEPT !.clean = FALSE, !.t0 = EmptyTable] ELSE sweep

\* The store has been handed to its caller and handler c holds no session.
CanNew(c) == loopPc # "construct" /\ ~sess[c].has

\* What New returns and writes in the current state.
NewOf(cookie, loadOk, insOk) ==
    NewResult(cookie, table, nextId, now, loadOk, insOk, stmtsClosed)

\* A handler calls store.New.
New(c) ==
    /\ CanNew(c)
    /\ \E cookie \in RequestCookies(nextId), loadOk \in BOOLEAN, insOk \in BOOLEAN :
        LET r == NewOf(cookie, loadOk, insOk)
        IN  /\ sess' = [sess EXCEPT ![c] = Held(r.session)]
            /\ table' = r.table
            /\ nextId' = r.nextId
            /\ issued' = issued \cup (DOMAIN r.table \ DOMAIN table)
            /\ sweep' = Disturbed(r.table)
    /\ UNCHANGED <<now, stmtsClosed, loopPc, closePc>>

\* The session handler c passes to Save, with the Values and MaxAge it set
\* (the fields Save reads).
Given(c, D, age) ==
    [ID |-> sess[c].ID, Values |-> D, MaxAge |-> age]

\* What Save returns and writes in the current state.
SaveOf(c, D, age, ok) ==
    SaveResult(Given(c, D, age), table, nextId, now, ok, stmtsClosed)

\* A handler sets session.Values and session.Options.MaxAge and calls
\* store.Save; the response is written and the session object is dropped.
Save(c) ==
    /\ sess[c].has
    /\ \E D \in DataSet, age \in Ages, ok \in BOOLEAN :
        LET r == SaveOf(c, D, age, ok)
        IN  /\ sess' = [sess EXCEPT ![c] = NoSession]
            /\ table' = r.table
            /\ nextId' = r.nextId
            /\ issued' = issued \cup (DOMAIN r.table \ DOMAIN table)
            /\ sweep' = Disturbed(r.table)
    /\ UNCHANGED <<now, stmtsClosed, loopPc, closePc>>

\* The handler returns without saving and its session object is dropped.
Done(c) ==
    /\ sess[c].has
    /\ sess' = [sess EXCEPT ![c] = NoSession]
    /\ UNCHANGED <<table, nextId, now, stmtsClosed, loopPc, sweep, closePc, issued>>

\* The clock advances.
Tick ==
    /\ now < MaxTime
    /\ now' = now + 1
    /\ UNCHANGED <<table, nextId, sess, stmtsClosed, loopPc, sweep, closePc, issued>>

(* ------------------------- cleanExpiredSessions ------------------------ *)

\* now := time.Now().Unix(); rows, err := s.selectAllStmt.Query()
CleanQuery ==
    /\ loopPc \in {"construct", "tick"}
    /\ sweep.pc = "idle"
    /\ \E ok \in BOOLEAN :
        IF ok
        THEN /\ sweep' = [pc |-> "rows", now |-> now, rows |-> Snapshot(table),
                          clean |-> TRUE, t0 |-> table]
             /\ UNCHANGED loopPc
        ELSE /\ sweep' = IdleSweep
             /\ loopPc' = "select"
    /\ UNCHANGED <<table, nextId, now, sess, stmtsClosed, closePc, issued>>

\* A loop that returns when a delete of its sweep fails.
CleanRow_abortStops ==
    /\ sweep.pc = "rows"
    /\ sweep.rows # << >>
    /\ \E ok \in BOOLEAN :
        LET row == Head(sweep.rows)
            er == erase(row.id, table, ok, stmtsClosed)
        IN  IF ~Expired(sweep.now, row.expires)
            THEN /\ sweep' = [sweep EXCEPT !.rows = Tail(sweep.rows)]
                 /\ UNCHANGED <<table, loopPc>>
            ELSE IF er.err # Nil
            THEN /\ sweep' = IdleSweep
                 /\ loopPc' = "exited"
                 /\ UNCHANGED table
            ELSE /\ table' = er.table
                 /\ sweep' = [sweep EXCEPT !.rows = Tail(sweep.rows)]
                 /\ UNCHANGED loopPc
    /\ UNCHANGED <<nextId, now, sess, stmtsClosed, closePc, issued>>

\* One turn of `for rows.Next()`: the row is deleted if it is expired.
CleanRow ==
    /\ sweep.pc = "rows"
    /\ sweep.rows # << >>
    /\ \E ok \in BOOLEAN :
        LET row == Head(sweep.rows)
            er == erase(row.id, table, ok, stmtsClosed)
        IN  IF ~Expired(sweep.now, row.expires)
            THEN /\ sweep' = [sweep EXCEPT !.rows = Tail(sweep.rows)]
                 /\ UNCHANGED <<table, loopPc>>
            ELSE IF er.err # Nil
            THEN /\ sweep' = IdleSweep
                 /\ loopPc' = "select"
                 /\ UNCHANGED table
            ELSE /\ table' = er.table
                 /\ sweep' = [sweep EXCEPT !.rows = Tail(sweep.rows)]
                 /\ UNCHANGED loopPc
    /\ UNCHANGED <<nextId, now, sess, stmtsClosed, closePc, issued>>

\* rows.Next() is false: return rows.Err()
CleanDone ==
    /\ sweep.pc = "rows"
    /\ sweep.rows = << >>
    /\ sweep' = IdleSweep
    /\ loopPc' = "select"
    /\ UNCHANGED <<table, nextId, now, sess, stmtsClosed, closePc, issued>>

(* ------------------------------ the loop ------------------------------- *)

\* case <-t.C:
LoopTick ==
    /\ loopPc = "select"
    /\ loopPc' = "tick"
    /\ UNCHANGED <<table, nextId, now, sess, stmtsClosed, sweep, closePc, issued>>

\* Close is called (a second call can follow the first one's return).
CloseCall ==
    /\ loopPc # "construct"
    /\ closePc \in {"idle", "returned"}
    /\ closePc' = "send"
    /\ UNCHANGED <<table, nextId, now, sess, stmtsClosed, loopPc, sweep, issued>>

\* s.stopChan <- struct{}{} meets case <-s.stopChan:
LoopStop ==
    /\ closePc = "send"
    /\ StopReady(loopPc)
    /\ closePc' = "recv"
    /\ loopPc' = "stopping"
    /\ UNCHANGED <<table, nextId, now, sess, stmtsClosed, sweep, issued>>

\* s.doneStoppingChan <- struct{}{} meets <-s.doneStoppingChan; the loop
\* returns.
LoopAck ==
    /\ loopPc = "stopping"
    /\ closePc = "recv"
    /\ loopPc' = "exited"
    /\ closePc' = "closing"
    /\ UNCHANGED <<table, nextId, now, sess, stmtsClosed, sweep, issued>>

\* The four Close calls on the statements; Close returns.
CloseStmts ==
    /\ MayCloseStmts(closePc)
    /\ stmtsClosed' = TRUE
    /\ closePc' = "returned"
    /\ UNCHANGED <<table, nextId, now, sess, loopPc, sweep, issued>>

Next ==
    \/ \E c \in Clients : New(c)
    \/ \E c \in Clients : Save(c)
    \/ \E c \in Clients : Done(c)
    \/ Tick
    \/ CleanQuery
    \/ CleanRow
    \/ CleanDone
    \/ LoopTick
    \/ CloseCall
    \/ LoopStop
    \/ LoopAck
    \/ CloseStmts

Spec == Init /\ [][Next]_vars

\* The goroutines are scheduled fairly and every statement of a sweep
\* returns: the sweeper, the loop's acknowledgement and the rest of Close take
\* their next step.  The select of the loop chooses at random among its ready
\* cases, so a stop request that is ready every time the loop comes back to
\* its select is taken in the end (strong fairness).
SchedulingFairness ==
    /\ WF_vars(CleanQuery)
    /\ WF_vars(CleanRow)
    /\ WF_vars(CleanDone)
    /\ SF_vars(LoopStop)
    /\ WF_vars(LoopAck)
    /\ WF_vars(CloseStmts)

LiveSpec == Spec /\ SchedulingFairness

\* The ticker keeps firing and the loop goroutine keeps running; a scan and
\* the handling of a scanned row may fail, but not forever (a statement that
\* is tried again and again succeeds in the end).
RetryFairness ==
    /\ WF_vars(LoopTick)
    /\ WF_vars(CleanQuery)
    /\ WF_vars(CleanRow)
    /\ WF_vars(CleanDone)
    /\ SF_vars(CleanQuery /\ sweep'.pc = "rows")
    /\ SF_vars(CleanRow /\ sweep'.pc = "rows")

SweepLiveSpec == Spec /\ RetryFairness

(* ======================================================================= *)
(* The claims.  New and Save are one step each, so what a call returns and *)
(* writes is NewOf / SaveOf evaluated in the state it is called in; a      *)
(* claim about a call is stated for every call possible in every reachable *)
(* state.                                                                  *)
(* ======================================================================= *)

\* The cookie a client holds for the record with id i.
CookieFor(i) == Cookie(Token(Name, Sprintf(i)))

\* New called right after a Save that left table t2 and counter n2, the
\* database working.
NewAfter(cookie, t2, n2) == NewResult(cookie, t2, n2, now, TRUE, TRUE, stmtsClosed)

\* C1: round trip.  Whenever Save of a session with data D and max_age > 0
\* returns nil, a New that presents the cookie Save wrote returns data D and
\* is_new = false, whatever preceded the Save.
C1_RoundTrip ==
    \A c \in Clients : sess[c].has =>
        \A D \in DataSet, age \in Ages, ok \in BOOLEAN :
            LET r == SaveOf(c, D, age, ok)
                n == NewAfter(r.resp, r.table, r.nextId)
            IN  (age > 0 /\ r.err = Nil) =>
                    (n.session.Values = D /\ ~n.session.IsNew)

\* C2: Save of a bound session with max_age > 0 leaves the payload and the
\* expiry of every record other than the session's own unchanged.
C2_SaveTouchesOwnRecordOnly ==
    \A c \in Clients : (sess[c].has /\ sess[c].ID # << >>) =>
        \A D \in DataSet, age \in Ages, ok \in BOOLEAN :
            LET r == SaveOf(c, D, age, ok)
            IN  age > 0 =>
                    \A i \in DOMAIN table \ {ParseId(sess[c].ID)} :
                        i \in DOMAIN r.table /\ r.table[i] = table[i]

\* The session New returned is bound to a record of table t2.
BoundIn(session, t2) ==
    session.ID # << >> /\ ParseId(session.ID) \in DOMAIN t2

\* New inserted a brand-new record and bound the session to it.
InsertedNew(r) ==
    /\ r.nextId = nextId + 1
    /\ nextId \notin DOMAIN table
    /\ DOMAIN r.table = DOMAIN table \cup {nextId}
    /\ r.session.ID = Sprintf(nextId)

\* C3 as claimed: whenever New returns without error the session is bound to
\* a record that exists, and in every non-reuse case (no cookie included) New
\* has inserted a brand-new record.
C3_NewAlwaysBinds ==
    \A c \in Clients : CanNew(c) =>
        \A cookie \in RequestCookies(nextId), loadOk \in BOOLEAN, insOk \in BOOLEAN :
            LET r == NewOf(cookie, loadOk, insOk)
            IN  r.err = Nil =>
                    /\ BoundIn(r.session, r.table)
                    /\ r.session.IsNew => InsertedNew(r)

\* C3 as amended: whenever New returns without error on a request that
\* carries the cookie, the session is bound to a record that exists, and
\* when the decode or the load failed New has inserted a brand-new record;
\* on a request without the cookie New inserts nothing and returns an
\* unbound session (ID = "").
C3_NewBindsWhenCookiePresent ==
    \A c \in Clients : CanNew(c) =>
        \A cookie \in RequestCookies(nextId), loadOk \in BOOLEAN, insOk \in BOOLEAN :
            LET r == NewOf(cookie, loadOk, insOk)
            IN  r.err = Nil =>
                    IF cookie.set
                    THEN /\ BoundIn(r.session, r.table)
                         /\ r.session.IsNew => InsertedNew(r)
                    ELSE /\ r.session.ID = << >>
                         /\ r.session.IsNew
                         /\ r.table = table
                         /\ r.nextId = nextId

\* A handler holds the session New bound to the record it has just inserted
\* (the newest record, with the payload of an empty session and the store's
\* default expiry).
C3_Witness ==
    \E c \in Clients :
        /\ sess[c].has
        /\ sess[c].ID = Sprintf(nextId - 1)
        /\ (nextId - 1) \in DOMAIN table
        /\ table[nextId - 1].session_data = Token(Name, << >>)
        /\ table[nextId - 1].expires = now + DefaultMaxAge

\* C4: whenever Save writes a cookie with a non-empty value, a record with
\* the id in the cookie exists and its payload is the encoding of the
\* session's data.
C4_CookieNamesPersistedRecord ==
    \A c \in Clients : sess[c].has =>
        \A D \in DataSet, age \in Ages, ok \in BOOLEAN :
            LET r == SaveOf(c, D, age, ok)
                id == ParseId(DecodeMulti(Name, r.resp.Value).value)
            IN  (r.resp.set /\ r.resp.Value # EmptyValue) =>
                    /\ id \in DOMAIN r.table
                    /\ r.table[id].session_data = Token(Name, D)

\* C5: when Save of a session with max_age <= 0 returns nil, it has inserted
\* and updated nothing, no record with the session's id is left, the cookie
\* it wrote has the empty value, and New with the old cookie returns
\* is_new = true.
C5_DeleteOnNonPositiveMaxAge ==
    \A c \in Clients : sess[c].has =>
        \A D \in DataSet, age \in Ages, ok \in BOOLEAN :
            LET r == SaveOf(c, D, age, ok)
                id == ParseId(sess[c].ID)
            IN  (age <= 0 /\ r.err = Nil) =>
                    /\ r.write = "delete"
                    /\ r.nextId = nextId
                    /\ DOMAIN r.table = DOMAIN table \ {id}
                    /\ \A i \in DOMAIN r.table : r.table[i] = table[i]
                    /\ r.resp = Cookie(EmptyValue)
                    /\ \A loadOk \in BOOLEAN, insOk \in BOOLEAN :
                          NewResult(Cookie(Token(Name, sess[c].ID)), r.table, r.nextId,
                                    now, loadOk, insOk, stmtsClosed).session.IsNew

\* A handler holds a session whose record exists, and Save with max_age = 0
\* removes it.
C5_Witness ==
    \E c \in Clients :
        /\ sess[c].has
        /\ ParseId(sess[c].ID) \in DOMAIN table
        /\ LET r == SaveOf(c, <<"alice">>, 0, TRUE)
           IN  r.err = Nil /\ ParseId(sess[c].ID) \notin DOMAIN r.table

\* A sweep has gone through all the rows it scanned without an error, and
\* no request has written to the table since the scan.
SweepCompleted == sweep.pc = "rows" /\ sweep.rows = << >> /\ sweep.clean

\* C6: such a sweep has deleted exactly the records whose expires_at was
\* less than its `now` and left the others (one with expires_at = now too)
\* as they were; New with the cookie of a deleted record returns
\* is_new = true.
C6_SweepDeletesExactlyExpired ==
    SweepCompleted =>
        /\ DOMAIN table = {i \in DOMAIN sweep.t0 : ~(sweep.t0[i].expires < sweep.now)}
        /\ \A i \in DOMAIN table : table[i] = sweep.t0[i]
        /\ \A i \in DOMAIN sweep.t0 \ DOMAIN table :
              \A loadOk \in BOOLEAN, insOk \in BOOLEAN :
                  NewOf(CookieFor(i), loadOk, insOk).session.IsNew

\* A completed sweep that deleted one record and kept one that expires at
\* the sweep's `now`.
C6_Witness ==
    /\ SweepCompleted
    /\ \E i \in DOMAIN sweep.t0 : i \notin DOMAIN table
    /\ \E j \in DOMAIN table : table[j].expires = sweep.now

\* A step of the sweeper is possible.
SweeperCanStep == ENABLED (LoopTick \/ CleanQuery \/ CleanRow \/ CleanDone)

\* C7: Close gets past its handshake, and closes the statements, only when
\* no sweep is in progress, and once Close has returned the sweeper takes no
\* step.
C7_CleanShutdown ==
    /\ (closePc \in {"recv", "closing", "returned"} \/ stmtsClosed) =>
            (sweep.pc = "idle" /\ loopPc \in {"stopping", "exited"})
    /\ stmtsClosed => (loopPc = "exited" /\ ~SweeperCanStep)

\* Close has been called and waits while a sweep is between two rows.
C7_Witness ==
    closePc = "send" /\ loopPc = "tick" /\ sweep.pc = "rows" /\ sweep.rows # << >>

\* C8: New returns an error exactly when it went on to the fallback insert
\* and the insert failed; the error of a failed decode or load is never what
\* New returns.
C8_NewErrorOnlyFromInsert ==
    \A c \in Clients : CanNew(c) =>
        \A cookie \in RequestCookies(nextId), loadOk \in BOOLEAN, insOk \in BOOLEAN :
            LET r == NewOf(cookie, loadOk, insOk)
                dec == DecodeMulti(Name, cookie.Value)
                loadFails == stmtsClosed \/ ~loadOk \/ ParseId(dec.value) \notin DOMAIN table
                insertFails == stmtsClosed \/ ~insOk \/ nextId > MaxId
            IN  /\ r.attempted <=> (cookie.set /\ (dec.err # Nil \/ loadFails))
                /\ (r.err # Nil) <=> (r.attempted /\ insertFails)
                /\ r.err \notin {ErrDecode, ErrNoRows, ErrSelect}

\* New is called with the cookie of a record that exists; if the SELECT
\* fails, New inserts a new record and returns no error.
C8_Witness ==
    \E c \in Clients : \E i \in DOMAIN table :
        /\ CanNew(c)
        /\ LET r == NewOf(CookieFor(i), FALSE, TRUE)
           IN  r.err = Nil /\ r.attempted /\ r.session.ID = Sprintf(nextId)

\* C9: New returns is_new = false exactly when the cookie decoded, the
\* record was loaded and its payload decoded, and then with the record's id
\* and data; in every other case is_new = true and the data is empty.
C9_IsNewExactlyWhenNotReused ==
    \A c \in Clients : CanNew(c) =>
        \A cookie \in RequestCookies(nextId), loadOk \in BOOLEAN, insOk \in BOOLEAN :
            LET r == NewOf(cookie, loadOk, insOk)
                dec == DecodeMulti(Name, cookie.Value)
                id == ParseId(dec.value)
                reused == /\ cookie.set /\ dec.err = Nil
                          /\ ~stmtsClosed /\ loadOk
                          /\ id \in DOMAIN table
                          /\ DecodeMulti(Name, table[id].session_data).err = Nil
            IN  /\ r.session.IsNew = ~reused
                /\ reused => /\ r.session.ID = dec.value
                             /\ r.session.Values =
                                    DecodeMulti(Name, table[id].session_data).value
                /\ ~reused => r.session.Values = << >>

\* New is called with the cookie of a record that holds data, and returns
\* that data with is_new = false.
C9_Witness ==
    \E c \in Clients : \E i \in DOMAIN table :
        /\ CanNew(c)
        /\ table[i].session_data = Token(Name, <<"alice">>)
        /\ LET r == NewOf(CookieFor(i), TRUE, TRUE)
           IN  ~r.session.IsNew /\ r.session.Values = <<"alice">>

\* C10: every insert assigns an id no insert has assigned before, whatever
\* was deleted in between: a step that advances the counter adds exactly one
\* record, under a never-issued id, and no other step adds a record.
C10_IdsNeverReused ==
    [][/\ \A i \in DOMAIN table' \ DOMAIN table : i \notin issued
       /\ (nextId' # nextId) =>
              \E i \in DOMAIN table' :
                  /\ i \notin issued
                  /\ i \notin DOMAIN table
                  /\ DOMAIN table' = DOMAIN table \cup {i}
                  /\ issued' = issued \cup {i}]_vars

\* Two inserts have happened, and the record of the first has been deleted
\* while the record of the second exists.
C10_Witness ==
    /\ Cardinality(issued) >= 2
    /\ \E i \in issued, j \in issued : i < j /\ i \notin DOMAIN table /\ j \in DOMAIN table

\* An id of two digits, longer than the codec's limit: the entity's ID when
\* the identifier itself cannot be encoded.
LongId == <<"1", "0">>

\* C11: Save sets a cookie on the response exactly when it returns nil: on
\* every error path (payload encode, insert, update, delete, identifier
\* encode) the response carries no cookie, and on a nil return it carries
\* one.
C11_CookieIffNil ==
    \A c \in Clients : sess[c].has =>
        \A id \in {sess[c].ID, LongId}, D \in DataSet, age \in Ages, ok \in BOOLEAN :
            LET r == SaveResult([ID |-> id, Values |-> D, MaxAge |-> age],
                                table, nextId, now, ok, stmtsClosed)
            IN  r.resp.set <=> (r.err = Nil)

\* A handler holds a bound session whose record exists: Save of it sets a
\* cookie when the statement succeeds, and sets none when the update or the
\* delete fails or the data is too long for the codec.
C11_Witness ==
    \E c \in Clients :
        /\ sess[c].has
        /\ ParseId(sess[c].ID) \in DOMAIN table
        /\ SaveOf(c, <<"alice">>, DefaultMaxAge, TRUE).resp = Cookie(Token(Name, sess[c].ID))
        /\ SaveOf(c, <<"alice">>, 0, TRUE).resp = Cookie(EmptyValue)
        /\ SaveOf(c, <<"alice">>, DefaultMaxAge, FALSE).err = ErrUpdate
        /\ ~SaveOf(c, <<"alice">>, DefaultMaxAge, FALSE).resp.set
        /\ SaveOf(c, <<"alice">>, 0, FALSE).err = ErrDelete
        /\ ~SaveOf(c, <<"alice">>, 0, FALSE).resp.set
        /\ SaveOf(c, <<"alice", "bob">>, DefaultMaxAge, TRUE).err = ErrEncode
        /\ ~SaveOf(c, <<"alice", "bob">>, DefaultMaxAge, TRUE).resp.set

\* C12: the first call of Close (the statements are still open) on a
\* constructed store returns, whether the loop is in its select or in the
\* middle of a sweep when Close is called.
C12_FirstCloseReturns ==
    (closePc = "send" /\ ~stmtsClosed) ~> (closePc = "returned")

\* The first Close has been called while the sweeper has scanned the table
\* and has rows left to go through.
C12_Witness ==
    /\ closePc = "send" /\ ~stmtsClosed
    /\ loopPc = "tick" /\ sweep.pc = "rows" /\ Len(sweep.rows) >= 1
    /\ table # EmptyTable

\* C13: a record's expires_at is the time of the latest insert or update made
\* for its own id plus the max_age of that write, and a write made for
\* another id never changes it.  For every Save with max_age > 0: afterwards
\* the record written for the session (its own, or the one just inserted)
\* expires at now + max_age, and every other record expires when it did
\* before.
C13_ExpiryOfOwnWriteOnly ==
    \A c \in Clients : sess[c].has =>
        \A D \in DataSet, age \in Ages, ok \in BOOLEAN :
            LET r == SaveOf(c, D, age, ok)
                own == IF sess[c].ID = << >> THEN nextId ELSE ParseId(sess[c].ID)
            IN  (age > 0 /\ r.err = Nil) =>
                    \A i \in DOMAIN r.table :
                        IF i = own
                        THEN r.table[i].expires = now + age
                        ELSE i \in DOMAIN table /\ r.table[i].expires = table[i].expires

\* The Save that ends the request cycle New result n began: the handler
\* saves the entity New returned, with data D and max-age age.
SaveAfter(n, D, age, ok) ==
    SaveResult([ID |-> n.session.ID, Values |-> D, MaxAge |-> age],
               n.table, n.nextId, now, ok, stmtsClosed)

\* New result n includes a successful INSERT.
NewWrote(n) == n.nextId # nextId

\* C14 as claimed: in one request cycle (New, then Save of the entity it
\* returned) at most one write is made for the entity: never New's insert
\* and a write of Save as well.
C14_OneWritePerCycle ==
    \A c \in Clients : CanNew(c) =>
        \A cookie \in RequestCookies(nextId), loadOk \in BOOLEAN, insOk \in BOOLEAN :
            LET n == NewOf(cookie, loadOk, insOk)
            IN  \A D \in DataSet, age \in Ages, ok \in BOOLEAN :
                    ~(NewWrote(n) /\ SaveAfter(n, D, age, ok).err = Nil)

\* C14 as amended: Save makes at most one write per call, exactly one of
\* insert (unbound entity), update (bound entity) and delete (max_age <= 0);
\* New writes nothing unless the request's cookie failed to decode or to
\* load, and then makes the one fallback insert; a cycle whose New inserted
\* has a second write, which is Save's update or delete and never a second
\* insert.
C14_WritesPerCycle ==
    \A c \in Clients : CanNew(c) =>
        \A cookie \in RequestCookies(nextId), loadOk \in BOOLEAN, insOk \in BOOLEAN :
            LET n == NewOf(cookie, loadOk, insOk)
            IN  /\ NewWrote(n) <=> (n.attempted /\ n.err = Nil)
                /\ NewWrote(n) => (cookie.set /\ n.session.IsNew /\ n.nextId = nextId + 1)
                /\ ~NewWrote(n) => n.table = table
                /\ \A D \in DataSet, age \in Ages, ok \in BOOLEAN :
                      LET sv == SaveAfter(n, D, age, ok)
                          kind == IF age <= 0 THEN "delete"
                                  ELSE IF n.session.ID = << >> THEN "insert"
                                  ELSE "update"
                      IN  /\ sv.write = kind
                          /\ (kind # "insert") => sv.nextId = n.nextId
                          /\ (kind = "insert") =>
                                /\ sv.nextId \in {n.nextId, n.nextId + 1}
                                /\ \A i \in DOMAIN n.table :
                                      i \in DOMAIN sv.table /\ sv.table[i] = n.table[i]
                          /\ (kind = "delete") =>
                                \A i \in DOMAIN sv.table :
                                      i \in DOMAIN n.table /\ sv.table[i] = n.table[i]
                          /\ (kind = "update") => DOMAIN sv.table = DOMAIN n.table
                          /\ (NewWrote(n) /\ sv.err = Nil) => kind \in {"update", "delete"}

\* New is called with a corrupted cookie: it inserts a record, and the Save
\* of the entity it returns updates that record -- two writes in one cycle.
C14_Witness ==
    \E c \in Clients :
        /\ CanNew(c)
        /\ LET n == NewOf(Cookie(Tampered), TRUE, TRUE)
               sv == SaveAfter(n, <<"alice">>, DefaultMaxAge, TRUE)
           IN  /\ NewWrote(n) /\ n.err = Nil
               /\ sv.err = Nil /\ sv.write = "update"
               /\ sv.table[nextId].session_data = Token(Name, <<"alice">>)

\* C15: the sweeper deletes a record only if the expires_at stored for it at
\* the moment of the delete is less than the sweep's `now`.  Whenever the
\* next step of a sweep is the delete of a row that is still in the table,
\* that row's stored expires_at is past.
C15_SweepDeletesOnlyStillExpired ==
    (sweep.pc = "rows" /\ sweep.rows # << >>) =>
        LET row == Head(sweep.rows)
            id == ParseId(row.id)
        IN  (Expired(sweep.now, row.expires) /\ id \in DOMAIN table) =>
                table[id].expires < sweep.now

\* Record i is in the table and its expires_at is past.
ExpiredRecord(i) == i \in DOMAIN table /\ table[i].expires < now

\* C16: a sweep that aborts (failed scan, failed delete) does not end the
\* loop: as long as no stop is requested the loop goroutine is running, and
\* a record that is expired is deleted in the end by a later sweep, unless it
\* is renewed or a stop is requested first.
C16_AbortedSweepIsRetried ==
    /\ [](closePc = "idle" => loopPc \in {"construct", "select", "tick"})
    /\ \A i \in 1..MaxId :
          (ExpiredRecord(i) /\ closePc = "idle")
              ~> (~ExpiredRecord(i) \/ closePc # "idle")

\* The sweep of the construction was aborted: a record that was expired
\* before the store was built is still in the table when the loop waits for
\* its next tick.
C16_Witness ==
    /\ loopPc = "select" /\ closePc = "idle" /\ sweep.pc = "idle"
    /\ \E i \in DOMAIN table : table[i].expires < 0

\* C17: once NewMariadbStore has returned (the store is built at time 0), no
\* record whose expires_at was past when the store was built can be loaded:
\* New with its cookie returns is_new = true.
C17_NoStaleRecordAfterConstruction ==
    loopPc # "construct" =>
        \A i \in DOMAIN table :
            table[i].expires < 0 => NewOf(CookieFor(i), TRUE, TRUE).session.IsNew

\* C18: the entity New returns has a non-empty ID only if that ID is the id
\* of a record the entity was loaded from or of the record New inserted for
\* it; when the load and the fallback insert both fail the entity is unbound.
C18_IdOnlyFromLoadOrInsert ==
    \A c \in Clients : CanNew(c) =>
        \A cookie \in RequestCookies(nextId), loadOk \in BOOLEAN, insOk \in BOOLEAN :
            LET r == NewOf(cookie, loadOk, insOk)
                id == ParseId(r.session.ID)
            IN  r.session.ID # << >> =>
                    \/ ~r.session.IsNew /\ id \in DOMAIN table
                    \/ NewWrote(r) /\ id = nextId /\ id \in DOMAIN r.table

\* C19: New does not look at expires_at.  While the statements are open and
\* the SELECT works, New with the cookie of a record whose expires_at is past
\* and which no sweep has deleted yet returns is_new = false with the stored
\* data, and writes nothing.
C19_ExpiredRecordStillLoaded ==
    \A c \in Clients : (CanNew(c) /\ ~stmtsClosed) =>
        \A i \in DOMAIN table : \A insOk \in BOOLEAN :
            LET r == NewOf(CookieFor(i), TRUE, insOk)
            IN  ExpiredRecord(i) =>
                    /\ ~r.session.IsNew
                    /\ r.err = Nil
                    /\ r.session.ID = Sprintf(i)
                    /\ r.session.Values = DecodeMulti(Name, table[i].session_data).value
                    /\ r.table = table /\ r.nextId = nextId

\* Between two sweeps the clock has passed the expires_at of a record that
\* holds data, and New with its cookie returns that data.
C19_Witness ==
    \E c \in Clients : \E i \in DOMAIN table :
        /\ CanNew(c) /\ ~stmtsClosed
        /\ loopPc = "select" /\ sweep.pc = "idle"
        /\ now > 0 /\ table[i].expires < now
        /\ table[i].session_data = Token(Name, <<"alice">>)
        /\ NewOf(CookieFor(i), TRUE, TRUE).session.Values = <<"alice">>
        /\ ~NewOf(CookieFor(i), TRUE, TRUE).session.IsNew

\* C20: the stop handshake works once.  When a Close has returned (the
\* statements are closed) the loop goroutine has exited and no receive from
\* stopChan is possible any more, and a Close called after that stays at its
\* send on stopChan for ever.
C20_SecondCloseBlocks ==
    /\ [](stmtsClosed => (loopPc = "exited" /\ ~ENABLED LoopStop))
    /\ [][(stmtsClosed /\ closePc = "send") => closePc' = "send"]_vars

\* Close has been called a second time, after the first call closed the
\* statements and returned.
C20_Witness ==
    stmtsClosed /\ closePc = "send" /\ loopPc = "exited"

====
